---- MODULE Spec2Model ----
(***************************************************************************)
(* Model of the ZAP export engine (src-electron/importexport/export.js):   *)
(* exportDataIntoFile, createStateFromDatabase, exportEndpointTypes,       *)
(* exportEndpointType and exportSessionPackages, as a state machine whose  *)
(* steps are the completions of the asynchronous fetches the code issues.  *)
(*                                                                         *)
(* A JavaScript object is a function from field names to values; delete    *)
(* removes a name from its domain.  A path string is a record              *)
(* [abs, segs]: whether it starts with '/', and its '/'-separated          *)
(* segments.                                                               *)
(*                                                                         *)
(* Spec explores the fan-out over endpoint types and clusters with fixed   *)
(* session rows, SpecRows the session rows (key/values, packages, log),    *)
(* the options and the destination over at most one endpoint type,         *)
(* SpecMutated the fan-out over a storage that loses endpoint types while  *)
(* the export runs, and SpecPath the package path resolution alone.  Spec  *)
(* and SpecRows share every action.                                        *)
(*                                                                         *)
(* SpecTitle and SpecSave model the window glue of                         *)
(* src-electron/ui/ui-util.ts: toggleDirtyFlag on its own, and doSave and  *)
(* doSaveAs with toggleDirtyFlag between their steps.                      *)
(***************************************************************************)
EXTENDS Integers, Sequences, FiniteSets, TLC

(***************************************************************************)
(* Bounds of the model.                                                    *)
(***************************************************************************)
MaxEndpointTypes == 2
MaxClusters == 3
MaxKeyValues == 3
MaxPackages == 1
MaxPathLen == 2
MaxTitleLen == 4
MaxSaveFlows == 2

(***************************************************************************)
(* JavaScript objects and arrays.                                          *)
(***************************************************************************)
Undefined == <<"undefined">>

Get(obj, f) == IF f \in DOMAIN obj THEN obj[f] ELSE Undefined

Put(obj, f, v) == [k \in (DOMAIN obj) \cup {f} |-> IF k = f THEN v ELSE obj[k]]

Delete(obj, f) == [k \in (DOMAIN obj) \ {f} |-> obj[k]]

Has(obj, f) == f \in DOMAIN obj

Range(s) == {s[k] : k \in DOMAIN s}

RECURSIVE SeqFilter(_, _)
SeqFilter(s, keep) ==
  IF s = <<>> THEN <<>>
  ELSE IF Head(s) \in keep THEN <<Head(s)>> \o SeqFilter(Tail(s), keep)
       ELSE SeqFilter(Tail(s), keep)

(***************************************************************************)
(* Node's path module (posix), on [abs, segs] paths.                       *)
(***************************************************************************)
RECURSIVE NormalizeSegs(_, _)
NormalizeSegs(done, rest) ==
  IF rest = <<>> THEN done
  ELSE IF Head(rest) = "." THEN NormalizeSegs(done, Tail(rest))
  ELSE IF Head(rest) = ".."
       THEN NormalizeSegs(IF done = <<>> THEN <<>> ELSE SubSeq(done, 1, Len(done) - 1),
                          Tail(rest))
  ELSE NormalizeSegs(Append(done, Head(rest)), Tail(rest))

\* path.resolve(p): the absolute, normalized segments of p; a relative p is
\* taken from the working directory cwd.
PathResolve(cwd, p) ==
  NormalizeSegs(<<>>, IF p.abs THEN p.segs ELSE cwd \o p.segs)

\* path.dirname(p): the path without its last segment ('/' or '.' when none is left).
PathDirname(p) ==
  [abs |-> p.abs,
   segs |-> IF Len(p.segs) <= 1 THEN <<>> ELSE SubSeq(p.segs, 1, Len(p.segs) - 1)]

RECURSIVE CommonPrefixLen(_, _)
CommonPrefixLen(a, b) ==
  IF a = <<>> \/ b = <<>> THEN 0
  ELSE IF Head(a) = Head(b) THEN 1 + CommonPrefixLen(Tail(a), Tail(b))
  ELSE 0

Ups(n) == [k \in 1..n |-> ".."]

\* path.relative(from, to): the segments of the relative path ('' is <<>>).
PathRelative(cwd, from, to) ==
  LET f == PathResolve(cwd, from)
      t == PathResolve(cwd, to)
      c == CommonPrefixLen(f, t)
  IN IF f = t THEN <<>>
     ELSE Ups(Len(f) - c) \o SubSeq(t, c + 1, Len(t))

\* The string a segment sequence stands for.
RECURSIVE PathString(_)
PathString(segs) ==
  IF segs = <<>> THEN ""
  ELSE IF Len(segs) = 1 THEN Head(segs)
  ELSE Head(segs) \o "/" \o PathString(Tail(segs))

(***************************************************************************)
(* exportSessionPackages: one package row to its exported record.          *)
(***************************************************************************)
relativeToUserHome == "relativeToUserHome"
relativeToZap == "relativeToZap"
Null == [isNull |-> TRUE]

IsNull(v) == Has(v, "isNull")

\* Faulty variant: the length of rel is not tested.
NonEmptyMut(rel) == TRUE

\* rel.length > 0
NonEmpty(rel) == Len(rel) > 0

ExportPackage(e, p, zapProjectFileLocation) ==
  LET homeRel == PathRelative(e.cwd, [abs |-> TRUE, segs |-> e.homedir], p.path)
      rel == IF IsNull(zapProjectFileLocation) THEN <<>>
             ELSE PathRelative(e.cwd, PathDirname(zapProjectFileLocation), p.path)
      useZap == ~IsNull(zapProjectFileLocation) /\ NonEmpty(rel)
  IN [pathRelativity |-> IF useZap THEN relativeToZap ELSE relativeToUserHome,
      path |-> IF useZap THEN rel ELSE homeRel,
      version |-> p.version,
      type |-> p.type]

ExportPackages(e, packages, zapProjectFileLocation) ==
  [k \in DOMAIN packages |-> ExportPackage(e, packages[k], zapProjectFileLocation)]

(***************************************************************************)
(* The rows the query layer returns.  A row's content names the ids it was *)
(* fetched for, so that a fetch made with the wrong id returns other rows. *)
(***************************************************************************)
FilePathKey == "filePath"

FeatureLevel == "featureLevel-of-zapVersion"

Str(s) == [abs |-> FALSE, segs |-> <<s>>]

Abs(segs) == [abs |-> TRUE, segs |-> segs]

HomeU == <<"home", "u">>

PkgA == Abs(<<"home", "u", "pkgs", "a.xml">>)

PkgDir == Abs(<<"home", "u", "pkgs">>)

ZapX == Abs(<<"home", "u", "projects", "x.zap">>)

ZapY == Abs(<<"home", "u", "pkgs", "y.zap">>)

KeyValueRows ==
  { [key |-> FilePathKey, value |-> ZapX],
    [key |-> FilePathKey, value |-> ZapY],
    [key |-> "a", value |-> Str("1")],
    [key |-> "b", value |-> Str("2")] }

PackageRows ==
  { [path |-> PkgA, version |-> "1", type |-> "zcl-properties"],
    [path |-> PkgDir, version |-> "2", type |-> "gen-templates-json"] }

LogChoices == { <<>>, <<[timestamp |-> "t1", log |-> "Session created"]>> }

\* The sequences without repetition of at most n elements of S.
RECURSIVE InjSeqs(_, _)
InjSeqs(S, n) ==
  IF n = 0 THEN {<<>>}
  ELSE LET shorter == InjSeqs(S, n - 1)
       IN shorter \cup {Append(q, x) : <<q, x>> \in {qx \in shorter \X S : qx[2] \notin Range(qx[1])}}

\* dataset "shapes" varies the endpoint types and clusters over fixed session
\* rows; dataset "rows" varies the session rows over at most one endpoint type;
\* dataset "mutated" is "shapes" with endpoint types that another writer
\* deletes from storage while the export runs.
KeyValueChoices(ds) ==
  IF ds = "rows"
  THEN InjSeqs(KeyValueRows, MaxKeyValues)
  ELSE {<<[key |-> "a", value |-> Str("1")], [key |-> FilePathKey, value |-> ZapX]>>}

PackageChoices(ds) ==
  IF ds = "rows"
  THEN InjSeqs(PackageRows, MaxPackages)
  ELSE {<<[path |-> PkgA, version |-> "1", type |-> "zcl-properties"]>>}

EndpointTypeCounts(ds) == IF ds = "rows" THEN 0..1 ELSE 0..MaxEndpointTypes

\* A session holds at most MaxClusters clusters over all its endpoint types;
\* so far is the number of them that earlier cluster fetches returned.
ClusterCounts(ds, sofar) ==
  0..((IF ds = "rows" THEN 1 ELSE IF ds = "mutated" THEN MaxClusters - 1 ELSE MaxClusters) - sofar)

EndpointTypeRows(n) ==
  [i \in 1..n |-> [endpointTypeId |-> <<"et", i>>, name |-> <<"type", i>>]]

ClusterRows(endpointTypeId, m) ==
  IF endpointTypeId = Undefined THEN <<>>
  ELSE [j \in 1..m |-> [endpointClusterId |-> <<"ec", endpointTypeId[2], j>>,
                        name |-> <<"cluster", endpointTypeId[2], j>>]]

\* Cluster 1 of a type has one command and two attributes, cluster 2 has
\* none of either, cluster 3 has one of each.
CommandCount(endpointClusterId) == IF endpointClusterId[3] % 2 = 1 THEN 1 ELSE 0

AttributeCount(endpointClusterId) == (endpointClusterId[3] + 1) % 3

CommandRows(endpointTypeId, endpointClusterId) ==
  IF endpointTypeId = Undefined \/ endpointClusterId = Undefined THEN <<>>
  ELSE [k \in 1..CommandCount(endpointClusterId) |->
          [name |-> <<"cmd", k>>, of |-> <<endpointTypeId, endpointClusterId>>]]

AttributeRows(endpointTypeId, endpointClusterId) ==
  IF endpointTypeId = Undefined \/ endpointClusterId = Undefined THEN <<>>
  ELSE [k \in 1..AttributeCount(endpointClusterId) |->
          [name |-> <<"attr", k>>, of |-> <<endpointTypeId, endpointClusterId>>]]

\* The rows of a detail query of an endpoint type: none once the endpoint
\* type is deleted, since the rows of a deleted endpoint type are deleted
\* with it.
FoundRows(gone, rows) == IF gone THEN <<>> ELSE rows

\* The endpoint types of a listing that are still stored.
RECURSIVE Remaining(_, _)
Remaining(types, gone) ==
  IF types = <<>> THEN <<>>
  ELSE IF Get(Head(types), "endpointTypeId") \in {<<"et", i>> : i \in gone}
       THEN Remaining(Tail(types), gone)
       ELSE <<Head(types)>> \o Remaining(Tail(types), gone)

\* One endpoint per endpoint type, listed in the opposite order.
EndpointRows(types) ==
  [k \in 1..Len(types) |->
     [endpointTypeRef |-> Get(types[Len(types) + 1 - k], "endpointTypeId"),
      endpointId |-> <<"ep", k>>]]

(***************************************************************************)
(* The asynchronous calls of one export: each is not yet issued ("none"),  *)
(* in flight ("pending"), or settled ("resolved", "rejected").             *)
(***************************************************************************)
KeyValuesCall == <<"getAllSessionKeyValues", 0, 0>>
PackagesCall == <<"exportPackagesFromSession", 0, 0>>
EndpointTypesCall == <<"exportEndpointTypes", 0, 0>>
EndpointsCall == <<"exportEndpoints", 0, 0>>
LogCall == <<"readLog", 0, 0>>
WriteCall == <<"writeFile", 0, 0>>
CleanCall == <<"setSessionClean", 0, 0>>
ClustersCall(i) == <<"exportClustersFromEndpointType", i, 0>>
CommandsCall(i, j) == <<"exportCommandsFromEndpointTypeCluster", i, j>>
AttributesCall(i, j) == <<"exportAttributesFromEndpointTypeCluster", i, j>>

TypeIndexes == 1..MaxEndpointTypes
ClusterIndexes == 1..MaxClusters

Calls ==
  {KeyValuesCall, PackagesCall, EndpointTypesCall, EndpointsCall, LogCall, WriteCall, CleanCall}
  \cup {ClustersCall(i) : i \in TypeIndexes}
  \cup {CommandsCall(i, j) : i \in TypeIndexes, j \in ClusterIndexes}
  \cup {AttributesCall(i, j) : i \in TypeIndexes, j \in ClusterIndexes}

\* The fetches of the assembly (every call but the write and the clean-mark).
SubFetches == Calls \ {WriteCall, CleanCall}

NotIssued == [status |-> "none", endpointTypeId |-> Undefined, endpointClusterId |-> Undefined]

Issued(endpointTypeId, endpointClusterId) ==
  [status |-> "pending", endpointTypeId |-> endpointTypeId, endpointClusterId |-> endpointClusterId]

Settle(r, call, status) == [r EXCEPT ![call].status = status]

\* Faulty variant: resolves once every promise has settled (Promise.allSettled).
PromiseAllMut(statuses) ==
  IF "pending" \in statuses THEN "pending" ELSE "resolved"

\* Promise.all over promises in the given states.
PromiseAll(statuses) ==
  IF "rejected" \in statuses THEN "rejected"
  ELSE IF "pending" \in statuses THEN "pending"
  ELSE "resolved"

\* The promise of an async function that awaits call a and then call b.
Chain(r, a, b) ==
  IF r[a].status = "resolved"
  THEN (IF r[b].status = "none" THEN "pending" ELSE r[b].status)
  ELSE r[a].status

\* The promise of the async callback of data.map for cluster j of type i.
ClusterPromise(r, i, j) == Chain(r, CommandsCall(i, j), AttributesCall(i, j))

\* Faulty variant: exportEndpointType returns without Promise.all(ps).
EndpointTypePromiseMut(r, f, i) == r[ClustersCall(i)].status

\* The promise exportEndpointType returns for type i; f[ClustersCall(i)] is data.
EndpointTypePromise(r, f, i) ==
  IF r[ClustersCall(i)].status = "resolved"
  THEN PromiseAll({ClusterPromise(r, i, j) : j \in DOMAIN f[ClustersCall(i)]})
  ELSE r[ClustersCall(i)].status

\* Promise.all(promises) of exportEndpointTypes.
AllEndpointTypesPromise(r, f) ==
  IF r[EndpointTypesCall].status = "resolved"
  THEN PromiseAll({EndpointTypePromise(r, f, i) : i \in DOMAIN f[EndpointTypesCall]})
  ELSE r[EndpointTypesCall].status

\* The promise exportEndpointTypes returns.
ExportEndpointTypesPromise(r, f) ==
  IF AllEndpointTypesPromise(r, f) = "resolved"
  THEN (IF r[EndpointsCall].status = "none" THEN "pending" ELSE r[EndpointsCall].status)
  ELSE AllEndpointTypesPromise(r, f)

\* getKeyValuesPromise.
KeyValuesPromise(r) == Chain(r, KeyValuesCall, PackagesCall)

\* Faulty variant: appendLogPromise is not among the promises.
AllBranchesPromiseMut(r) == PromiseAll({KeyValuesPromise(r), "resolved", "resolved"})

\* Promise.all(promises) of createStateFromDatabase; parseEndpointTypes and
\* parseEndpoints are resolved when they are made.
AllBranchesPromise(r) ==
  PromiseAll({KeyValuesPromise(r), "resolved", "resolved",
              IF r[LogCall].status = "none" THEN "pending" ELSE r[LogCall].status})

(***************************************************************************)
(* The in-place updates of the endpoint types array.                       *)
(***************************************************************************)
\* Faulty variant: the identifier is read but not deleted.
StripClusterIdMut(cluster) == cluster

\* delete endpointCluster.endpointClusterId
StripClusterId(cluster) == Delete(cluster, "endpointClusterId")

\* Faulty variant: the identifier is read after it is deleted.
LocalClusterIdMut(cluster) == Get(StripClusterId(cluster), "endpointClusterId")

\* let endpointClusterId = endpointCluster.endpointClusterId
LocalClusterId(cluster) == Get(cluster, "endpointClusterId")

\* Faulty variant: the clusters go to the endpoint types in the order in
\* which the cluster fetches resolve.
SetClustersMut(types, i, data) ==
  [types EXCEPT ![1 + Cardinality({k \in DOMAIN types : Has(types[k], "clusters")})] =
     Put(@, "clusters", data)]

\* endpointType.clusters = data, of the endpoint type object at index i.
SetClusters(types, i, data) == [types EXCEPT ![i] = Put(@, "clusters", data)]

\* endpointCluster.commands = ..., of cluster j of type i.
SetCommands(types, i, j, rows) ==
  [types EXCEPT ![i] = Put(@, "clusters", [@.clusters EXCEPT ![j] = Put(@, "commands", rows)])]

\* Faulty variant: no attributes field when the fetch returned no row.
SetAttributesMut(types, i, j, rows) ==
  IF rows = <<>> THEN types
  ELSE [types EXCEPT ![i] = Put(@, "clusters", [@.clusters EXCEPT ![j] = Put(@, "attributes", rows)])]

\* endpointCluster.attributes = ..., of cluster j of type i.
SetAttributes(types, i, j, rows) ==
  [types EXCEPT ![i] = Put(@, "clusters", [@.clusters EXCEPT ![j] = Put(@, "attributes", rows)])]

\* endpointTypes.forEach((ept) => { delete ept.endpointTypeId })
StripEndpointTypeIds(types) == [k \in DOMAIN types |-> Delete(types[k], "endpointTypeId")]

\* endpoints.forEach((ep) => { delete ep.endpointTypeRef })
StripEndpointTypeRefs(eps) == [k \in DOMAIN eps |-> Delete(eps[k], "endpointTypeRef")]

(***************************************************************************)
(* createStateFromDatabase: the key/value rows and the final merge.        *)
(***************************************************************************)
excludedKeys == {FilePathKey}

\* Faulty variant: no key is excluded.
StoredKeyValuePairsMut(data) == data

\* data.filter((datum) => !excludedKeys.includes(datum.key))
StoredKeyValuePairs(data) == SeqFilter(data, {d \in Range(data) : d.key \notin excludedKeys})

\* Faulty variant: the last stored file path is taken.
ZapFilePathMut(data) ==
  LET x == SeqFilter(data, {d \in Range(data) : d.key = FilePathKey})
  IN IF Len(x) > 0 THEN x[Len(x)].value ELSE Null

\* x = data.filter(key == filePath); zapFilePath = x.length > 0 ? x[0].value : null
ZapFilePath(data) ==
  LET x == SeqFilter(data, {d \in Range(data) : d.key = FilePathKey})
  IN IF Len(x) > 0 THEN x[1].value ELSE Null

\* data.flat(): the values of the promises, each an array of {key, data}
\* pairs (a single pair is an array of one here), one after the other.
RECURSIVE Flat(_)
Flat(data) == IF data = <<>> THEN <<>> ELSE Head(data) \o Flat(Tail(data))

\* Faulty variant: a pair without data is not merged.
RECURSIVE MergeMut(_, _)
MergeMut(st, pairs) ==
  IF pairs = <<>> THEN st
  ELSE MergeMut(IF Len(Head(pairs).data) = 0 THEN st
                ELSE Put(st, Head(pairs).key, Head(pairs).data),
                Tail(pairs))

\* forEach((keyDataPair) => { state[keyDataPair.key] = keyDataPair.data })
RECURSIVE Merge(_, _)
Merge(st, pairs) ==
  IF pairs = <<>> THEN st
  ELSE Merge(Put(st, Head(pairs).key, Head(pairs).data), Tail(pairs))

(***************************************************************************)
(* exportDataIntoFile: the options and the write.                          *)
(***************************************************************************)
\* options = { removeLog: false } when the argument is omitted.
OptionsArgs == { <<>>, <<[removeLog |-> TRUE]>>, <<[removeLog |-> FALSE]>> }

\* The options arguments of the calls of a dataset: every one with the
\* session rows varied, omitted with the endpoint types varied.
OptionsChoices(ds) == IF ds = "rows" THEN OptionsArgs ELSE {<<>>}

Options(optionsArg) == IF optionsArg = <<>> THEN [removeLog |-> FALSE] ELSE optionsArg[1]

\* The filePath arguments of the calls of a dataset: a path in the directory
\* of the packages, and with the session rows varied a path elsewhere.
FilePathChoices(ds) == IF ds = "rows" THEN {ZapY, Abs(<<"srv", "out.zap">>)} ELSE {ZapY}

\* Faulty variant: the log is deleted whatever the options.
RemoveLogMut(options, st) == Delete(st, "log")

\* if (options.removeLog) delete state.log
RemoveLog(options, st) == IF options.removeLog THEN Delete(st, "log") ELSE st

\* The document that JSON.stringify(state, null, 2) writes: the fields of
\* state, which are plain data (strings, arrays and objects of them).
Stringify(st) == [k \in DOMAIN st |-> st[k]]


\* (err) => { if (err) reject(err); resolve() }: the calls the callback
\* makes on the write promise, in order.
SettleCalls(err) == IF err THEN <<"rejected", "resolved">> ELSE <<"resolved">>

\* Faulty variant: a later call of resolve or reject replaces the state.
SettleOnceMut(status, call) == call

\* A call of resolve or reject on a promise in the given state: it settles
\* a pending promise and has no effect on a settled one.
SettleOnce(status, call) == IF status = "pending" THEN call ELSE status

RECURSIVE SettleAll(_, _)
SettleAll(status, calls) ==
  IF calls = <<>> THEN status
  ELSE SettleAll(SettleOnce(status, Head(calls)), Tail(calls))

\* Faulty variant: the callback resolves without looking at err.
WriteSettlesMut(err) == "resolved"
\* How the write promise settles.
WriteSettles(err) == SettleAll("pending", SettleCalls(err))

NoFile == [exists |-> FALSE]

(***************************************************************************)
(* State.                                                                  *)
(***************************************************************************)
VARIABLES
  dataset,        \* which rows the query layer may return (see KeyValueChoices)
  env,            \* os.homedir() and the working directory
  pc,             \* where exportDataIntoFile is: "idle", "createState" (line 190),
                  \* "awaitAll" (line 210), "write" (line 135), "clean" (line 142),
                  \* "resolved", "rejected"
  optionsArg,     \* the options argument: <<>> when omitted
  req,            \* every call's status and the ids it was issued with
  fetched,        \* the rows every resolved fetch returned
  endpointTypes,  \* the endpointTypes array of exportEndpointTypes
  endpoints,      \* the endpoints array of exportEndpointTypes
  endpointsArg,   \* the endpointTypes that exportEndpoints was called with
  clusterIds,     \* the local endpointClusterId of each data.map callback
  keyValues,      \* the value of the first then of getKeyValuesPromise
  kvValue,        \* the value getKeyValuesPromise resolved with
  state,          \* the state object of createStateFromDatabase
  document,       \* the state as createStateFromDatabase returned it
  writeData,      \* the data handed to fs.writeFile
  file,           \* the file at filePath
  sessionDirty,   \* the session's dirty flag
  writeCalls,     \* the number of fs.writeFile calls
  cleanCalls,     \* the number of setSessionClean calls
  writeResult,    \* what the callback of fs.writeFile received: "none" before it runs
  settleCalls,    \* the calls of resolve and reject on the write promise, in order
  reordered,      \* a fetch of the fan-out resolved before one issued earlier
  pathIn,         \* the arguments of a package path resolution on its own
  pathOut,        \* its result
  deleted,        \* the listed endpoint types since deleted from storage
  missing,        \* the fetches served when their endpoint type was deleted
  filePath,       \* the filePath argument of exportDataIntoFile
  title,          \* the title of the browser window
  titleOrig,      \* the title the window started with
  isDirty,        \* browserWindow.isDirty: <<>> while undefined
  storedFileSave, \* the renderer's storage item fileSave: <<>> while null
  flow,           \* the save commands of the user, each with its position
  saveRequests    \* the filePath of every save requested of the renderer, in order

vars ==
  <<dataset, env, pc, optionsArg, req, fetched, endpointTypes, endpoints, endpointsArg,
    clusterIds, keyValues, kvValue, state, document, writeData, file, sessionDirty,
    writeCalls, cleanCalls, writeResult, settleCalls, reordered, pathIn, pathOut, deleted, missing,
    filePath, title, titleOrig, isDirty, storedFileSave, flow, saveRequests>>

uiVars == <<title, titleOrig, isDirty, storedFileSave, flow, saveRequests>>

exportVars ==
  <<pc, optionsArg, req, fetched, endpointTypes, endpoints, endpointsArg,
    clusterIds, keyValues, kvValue, state, document, writeData, file, sessionDirty,
    writeCalls, cleanCalls, writeResult, settleCalls, reordered, deleted, missing, filePath>>

NoPathIn == [package |-> Str(""), reference |-> Null]
NoPathOut == [pathRelativity |-> "", path |-> <<>>]

newConfiguration == "New Configuration"

SaveFlows == 1..MaxSaveFlows

\* A save command not yet given.  Its positions are "none", "getItem"
\* (line 136), "dialog" (line 151), "saved" (line 156, before the then of
\* line 161 runs), "done", "canceled", "failed" (line 172), and "direct"
\* after the fileSave of line 123.
NoFlow == [pc |-> "none", via |-> "", titleAtCall |-> "", chosen |-> ""]

\* A new window, before any save command.
InitWindow ==
  /\ title = newConfiguration
  /\ titleOrig = newConfiguration
  /\ isDirty = <<>>
  /\ storedFileSave = <<>>
  /\ flow = [k \in SaveFlows |-> NoFlow]
  /\ saveRequests = <<>>

InitExport ==
  /\ env = [homedir |-> HomeU, cwd |-> <<"srv">>]
  /\ pc = "idle"
  /\ optionsArg = <<>>
  /\ req = [c \in Calls |-> NotIssued]
  /\ fetched = [c \in Calls |-> <<>>]
  /\ endpointTypes = <<>>
  /\ endpoints = <<>>
  /\ endpointsArg = <<>>
  /\ clusterIds = [i \in TypeIndexes |-> [j \in ClusterIndexes |-> Undefined]]
  /\ keyValues = [key |-> "keyValuePairs", data |-> <<>>, zapFilePath |-> Null]
  /\ kvValue = <<>>
  /\ state = <<>>
  /\ document = <<>>
  /\ writeData = <<>>
  /\ file = NoFile
  /\ sessionDirty = TRUE
  /\ writeCalls = 0
  /\ cleanCalls = 0
  /\ writeResult = "none"
  /\ settleCalls = <<>>
  /\ reordered = FALSE
  /\ pathIn = NoPathIn
  /\ pathOut = NoPathOut
  /\ deleted = {}
  /\ missing = {}
  /\ filePath = Null

Init == dataset = "shapes" /\ InitExport /\ InitWindow

InitRows == dataset = "rows" /\ InitExport /\ InitWindow

InitMutated == dataset = "mutated" /\ InitExport /\ InitWindow

Rejected(call) == req[call].status = "rejected"

Resolved(call) == req[call].status = "resolved"

InFlight(call) == req[call].status = "pending"

(***************************************************************************)
(* Continuations shared by the handlers.                                   *)
(***************************************************************************)
\* exportEndpointTypes after a step of its fan-out: once Promise.all(promises)
\* resolves, exportEndpoints is called; once its promise rejects, the await
\* of line 190 throws and exportDataIntoFile rejects.
EndpointTypesContinue(r1, f1, types1) ==
  LET issue == AllEndpointTypesPromise(r1, f1) = "resolved" /\ r1[EndpointsCall].status = "none"
      r2 == IF issue THEN [r1 EXCEPT ![EndpointsCall] = Issued(Undefined, Undefined)] ELSE r1
  IN /\ req' = r2
     /\ endpointsArg' = IF issue THEN types1 ELSE endpointsArg
     /\ pc' = IF pc = "createState" /\ ExportEndpointTypesPromise(r2, f1) = "rejected"
              THEN "rejected" ELSE pc

\* createStateFromDatabase at line 210 (at: its position), and, when
\* Promise.all(promises) resolves, the merge, the return and lines 135-137.
AllBranchesContinue(at, r1, f1, kvv, types1, eps1) ==
  LET all == IF at = "awaitAll" THEN AllBranchesPromise(r1) ELSE "pending"
      data == << kvv,
                 <<[key |-> "endpointTypes", data |-> types1]>>,
                 <<[key |-> "endpoints", data |-> eps1]>>,
                 <<[key |-> "log", data |-> f1[LogCall]]>> >>
      merged == Merge(state, Flat(data))
  IN IF all = "resolved"
     THEN /\ document' = merged
          /\ state' = RemoveLog(Options(optionsArg), merged)
          /\ writeData' = Stringify(RemoveLog(Options(optionsArg), merged))
          /\ req' = [r1 EXCEPT ![WriteCall] = Issued(Undefined, Undefined)]
          /\ writeCalls' = writeCalls + 1
          /\ pc' = "write"
     ELSE /\ pc' = IF all = "rejected" THEN "rejected" ELSE at
          /\ req' = r1
          /\ UNCHANGED <<document, state, writeData, writeCalls>>

(***************************************************************************)
(* exportDataIntoFile is called, with or without options:                  *)
(* createStateFromDatabase runs to its first await, having issued the      *)
(* key/value fetch and the endpoint type listing.                          *)
(***************************************************************************)
Call ==
  /\ pc = "idle"
  /\ pc' = "createState"
  /\ \E arg \in OptionsChoices(dataset) : optionsArg' = arg
  /\ \E path \in FilePathChoices(dataset) : filePath' = path
  /\ state' = [featureLevel |-> FeatureLevel, creator |-> "zap"]
  /\ req' = [req EXCEPT ![KeyValuesCall] = Issued(Undefined, Undefined),
                        ![EndpointTypesCall] = Issued(Undefined, Undefined)]
  /\ UNCHANGED <<dataset, env, fetched, endpointTypes, endpoints, endpointsArg,
                 clusterIds, keyValues, kvValue, document, writeData, file, sessionDirty,
                 writeCalls, cleanCalls, pathIn, pathOut>>
  /\ UNCHANGED <<writeResult, settleCalls, reordered, deleted, missing, uiVars>>

\* getAllSessionKeyValues resolves: both then callbacks of lines 167-187.
KeyValuesResolve ==
  /\ req[KeyValuesCall].status = "pending"
  /\ \E data \in KeyValueChoices(dataset) :
       /\ fetched' = [fetched EXCEPT ![KeyValuesCall] = data]
       /\ keyValues' = [key |-> "keyValuePairs",
                        data |-> StoredKeyValuePairs(data),
                        zapFilePath |-> ZapFilePath(data)]
  /\ req' = [Settle(req, KeyValuesCall, "resolved") EXCEPT ![PackagesCall] = Issued(Undefined, Undefined)]
  /\ UNCHANGED <<dataset, env, pc, optionsArg, endpointTypes, endpoints, endpointsArg,
                 clusterIds, kvValue, state, document, writeData, file, sessionDirty,
                 writeCalls, cleanCalls, pathIn, pathOut>>
  /\ UNCHANGED <<writeResult, settleCalls, reordered, deleted, missing, filePath, uiVars>>

\* exportPackagesFromSession resolves: lines 95-113 and 183-185.
PackagesResolve ==
  /\ req[PackagesCall].status = "pending"
  /\ \E packages \in PackageChoices(dataset) :
       LET kvv == <<keyValues,
                    [key |-> "package",
                     data |-> ExportPackages(env, packages, keyValues.zapFilePath)]>>
       IN /\ fetched' = [fetched EXCEPT ![PackagesCall] = packages]
          /\ kvValue' = kvv
          /\ AllBranchesContinue(pc, Settle(req, PackagesCall, "resolved"), fetched,
                                 kvv, endpointTypes, endpoints)
  /\ UNCHANGED <<dataset, env, optionsArg, endpointTypes, endpoints, endpointsArg, clusterIds, keyValues,
                 file, sessionDirty, cleanCalls, pathIn, pathOut>>
  /\ UNCHANGED <<writeResult, settleCalls, reordered, deleted, missing, filePath, uiVars>>

\* The endpoint type listing resolves: exportEndpointType is called for
\* every endpoint type, each issuing its cluster fetch (lines 69-74, 33-36).
EndpointTypesResolve ==
  /\ req[EndpointTypesCall].status = "pending"
  /\ \E n \in EndpointTypeCounts(dataset) :
       LET rows == EndpointTypeRows(n)
           f1 == [fetched EXCEPT ![EndpointTypesCall] = rows]
           r1 == [c \in Calls |->
                    IF c = EndpointTypesCall THEN [req[c] EXCEPT !.status = "resolved"]
                    ELSE IF \E i \in 1..n : c = ClustersCall(i)
                    THEN Issued(rows[c[2]].endpointTypeId, Undefined)
                    ELSE req[c]]
       IN /\ fetched' = f1
          /\ endpointTypes' = rows
          /\ EndpointTypesContinue(r1, f1, rows)
  /\ UNCHANGED <<dataset, env, optionsArg, endpoints, clusterIds, keyValues, kvValue, state,
                 document, writeData, file, sessionDirty, writeCalls, cleanCalls,
                 pathIn, pathOut>>
  /\ UNCHANGED <<writeResult, settleCalls, reordered, deleted, missing, filePath, uiVars>>

\* A fetch of the fan-out issued before those of cluster j of type i (all of
\* type i when j = 0) is still in flight: the cluster fetch of an earlier
\* type, or the commands or attributes fetch of an earlier cluster of type i.
EarlierInFlight(r, i, j) ==
  \/ \E k \in 1..(i - 1) : r[ClustersCall(k)].status = "pending"
  \/ \E k \in 1..(j - 1) : \/ r[CommandsCall(i, k)].status = "pending"
                             \/ r[AttributesCall(i, k)].status = "pending"

RECURSIVE SumLen(_, _)
SumLen(f, S) ==
  IF S = {} THEN 0
  ELSE LET c == CHOOSE c \in S : TRUE IN Len(f[c]) + SumLen(f, S \ {c})

ClustersFetched(f) == SumLen(f, {ClustersCall(i) : i \in TypeIndexes})

\* The cluster fetch of endpoint type i resolves: lines 38-47 for every
\* cluster, up to the await of its commands fetch.
ClustersResolve(i) ==
  /\ req[ClustersCall(i)].status = "pending"
  /\ \E m \in ClusterCounts(dataset, ClustersFetched(fetched)) :
       LET data == FoundRows(i \in deleted, ClusterRows(req[ClustersCall(i)].endpointTypeId, m))
           f1 == [fetched EXCEPT ![ClustersCall(i)] = data]
           stripped == [j \in DOMAIN data |-> StripClusterId(data[j])]
           types1 == SetClusters(endpointTypes, i, stripped)
           r1 == [c \in Calls |->
                    IF c = ClustersCall(i) THEN [req[c] EXCEPT !.status = "resolved"]
                    ELSE IF \E j \in DOMAIN data : c = CommandsCall(i, j)
                    THEN Issued(Get(types1[i], "endpointTypeId"),
                                LocalClusterId(data[c[3]]))
                    ELSE req[c]]
       IN /\ fetched' = f1
          /\ endpointTypes' = types1
          /\ clusterIds' = [clusterIds EXCEPT ![i] =
                              [j \in ClusterIndexes |->
                                 IF j \in DOMAIN data THEN LocalClusterId(data[j])
                                 ELSE @[j]]]
          /\ EndpointTypesContinue(r1, f1, types1)
  /\ UNCHANGED <<dataset, env, optionsArg, endpoints, keyValues, kvValue, state, document,
                 writeData, file, sessionDirty, writeCalls, cleanCalls, pathIn, pathOut>>
  /\ reordered' = (reordered \/ EarlierInFlight(req, i, 0))
  /\ missing' = (IF i \in deleted THEN missing \cup {ClustersCall(i)} ELSE missing)
  /\ UNCHANGED <<writeResult, settleCalls, deleted, filePath, uiVars>>

\* The commands fetch of cluster j of type i resolves: lines 43 and 49-53.
CommandsResolve(i, j) ==
  /\ req[CommandsCall(i, j)].status = "pending"
  /\ LET rows == FoundRows(i \in deleted,
                           CommandRows(req[CommandsCall(i, j)].endpointTypeId,
                                       req[CommandsCall(i, j)].endpointClusterId))
         types1 == SetCommands(endpointTypes, i, j, rows)
     IN /\ fetched' = [fetched EXCEPT ![CommandsCall(i, j)] = rows]
        /\ endpointTypes' = types1
        /\ req' = [Settle(req, CommandsCall(i, j), "resolved") EXCEPT
                     ![AttributesCall(i, j)] =
                        Issued(Get(types1[i], "endpointTypeId"), clusterIds[i][j])]
  /\ UNCHANGED <<dataset, env, pc, optionsArg, endpoints, endpointsArg, clusterIds, keyValues,
                 kvValue, state, document, writeData, file, sessionDirty, writeCalls,
                 cleanCalls, pathIn, pathOut>>
  /\ reordered' = (reordered \/ EarlierInFlight(req, i, j))
  /\ missing' = (IF i \in deleted THEN missing \cup {CommandsCall(i, j)} ELSE missing)
  /\ UNCHANGED <<writeResult, settleCalls, deleted, filePath, uiVars>>

\* The attributes fetch of cluster j of type i resolves: line 49, and the
\* Promise.all of lines 55 and 74 when it is the last one.
AttributesResolve(i, j) ==
  /\ req[AttributesCall(i, j)].status = "pending"
  /\ LET rows == FoundRows(i \in deleted,
                           AttributeRows(req[AttributesCall(i, j)].endpointTypeId,
                                         req[AttributesCall(i, j)].endpointClusterId))
         f1 == [fetched EXCEPT ![AttributesCall(i, j)] = rows]
         types1 == SetAttributes(endpointTypes, i, j, rows)
     IN /\ fetched' = f1
        /\ endpointTypes' = types1
        /\ EndpointTypesContinue(Settle(req, AttributesCall(i, j), "resolved"), f1, types1)
  /\ UNCHANGED <<dataset, env, optionsArg, endpoints, clusterIds, keyValues, kvValue, state,
                 document, writeData, file, sessionDirty, writeCalls, cleanCalls,
                 pathIn, pathOut>>
  /\ reordered' = (reordered \/ EarlierInFlight(req, i, j))
  /\ missing' = (IF i \in deleted THEN missing \cup {AttributesCall(i, j)} ELSE missing)
  /\ UNCHANGED <<writeResult, settleCalls, deleted, filePath, uiVars>>

\* exportEndpoints resolves: lines 76-84, then createStateFromDatabase goes
\* on from line 190 to the await of line 210, issuing readLog.
EndpointsResolve ==
  /\ req[EndpointsCall].status = "pending"
  /\ LET rows == EndpointRows(Remaining(endpointsArg, deleted))
         f1 == [fetched EXCEPT ![EndpointsCall] = rows]
         types1 == StripEndpointTypeIds(endpointTypes)
         eps1 == StripEndpointTypeRefs(rows)
         r1 == [Settle(req, EndpointsCall, "resolved") EXCEPT ![LogCall] = Issued(Undefined, Undefined)]
     IN /\ fetched' = f1
        /\ endpointTypes' = types1
        /\ endpoints' = eps1
        /\ AllBranchesContinue("awaitAll", r1, f1, kvValue, types1, eps1)
  /\ UNCHANGED <<dataset, env, optionsArg, endpointsArg, clusterIds, keyValues, kvValue, file,
                 sessionDirty, cleanCalls, pathIn, pathOut>>
  /\ UNCHANGED <<writeResult, settleCalls, reordered, deleted, missing, filePath, uiVars>>

\* readLog resolves: line 203, and the Promise.all of line 210.
LogResolve ==
  /\ req[LogCall].status = "pending"
  /\ \E log \in LogChoices :
       LET f1 == [fetched EXCEPT ![LogCall] = log]
       IN /\ fetched' = f1
          /\ AllBranchesContinue(pc, Settle(req, LogCall, "resolved"), f1,
                                 kvValue, endpointTypes, endpoints)
  /\ UNCHANGED <<dataset, env, optionsArg, endpointTypes, endpoints, endpointsArg, clusterIds, keyValues,
                 kvValue, file, sessionDirty, cleanCalls, pathIn, pathOut>>
  /\ UNCHANGED <<writeResult, settleCalls, reordered, deleted, missing, filePath, uiVars>>

(***************************************************************************)
(* Failures.  Any fetch in flight may reject; the other fetches in flight   *)
(* at that moment still complete afterwards.                               *)
(***************************************************************************)
\* The key/value, package or log fetch rejects.
SessionFetchReject(call) ==
  /\ call \in {KeyValuesCall, PackagesCall, LogCall}
  /\ req[call].status = "pending"
  /\ AllBranchesContinue(pc, Settle(req, call, "rejected"), fetched,
                         kvValue, endpointTypes, endpoints)
  /\ UNCHANGED <<dataset, env, optionsArg, fetched, endpointTypes, endpoints, endpointsArg, clusterIds,
                 keyValues, kvValue, file, sessionDirty, cleanCalls, pathIn, pathOut>>
  /\ UNCHANGED <<writeResult, settleCalls, reordered, deleted, missing, filePath, uiVars>>

\* A fetch of exportEndpointTypes rejects: the listing, a cluster fetch, a
\* commands or attributes fetch, or exportEndpoints.
EndpointTypeFetchReject(call) ==
  /\ call \in SubFetches \ {KeyValuesCall, PackagesCall, LogCall}
  /\ req[call].status = "pending"
  /\ EndpointTypesContinue(Settle(req, call, "rejected"), fetched, endpointTypes)
  /\ UNCHANGED <<dataset, env, optionsArg, fetched, endpointTypes, endpoints, clusterIds,
                 keyValues, kvValue, state, document, writeData, file, sessionDirty,
                 writeCalls, cleanCalls, pathIn, pathOut>>
  /\ UNCHANGED <<writeResult, settleCalls, reordered, deleted, missing, filePath, uiVars>>

(***************************************************************************)
(* The write and the clean-mark (lines 137-143).                           *)
(***************************************************************************)
\* The callback of fs.writeFile runs, with an error or without.
WriteDone(err) ==
  /\ pc = "write"
  /\ req[WriteCall].status = "pending"
  /\ file' = IF err THEN file ELSE [exists |-> TRUE, path |-> filePath, content |-> writeData]
  /\ IF WriteSettles(err) = "resolved"
     THEN /\ req' = [Settle(req, WriteCall, "resolved") EXCEPT ![CleanCall] = Issued(Undefined, Undefined)]
          /\ cleanCalls' = cleanCalls + 1
          /\ pc' = "clean"
     ELSE /\ req' = Settle(req, WriteCall, "rejected")
          /\ cleanCalls' = cleanCalls
          /\ pc' = "rejected"
  /\ UNCHANGED <<dataset, env, optionsArg, fetched, endpointTypes, endpoints, endpointsArg,
                 clusterIds, keyValues, kvValue, state, document, writeData, sessionDirty,
                 writeCalls, pathIn, pathOut>>
  /\ writeResult' = (IF err THEN "error" ELSE "success")
  /\ settleCalls' = SettleCalls(err)
  /\ UNCHANGED <<reordered, deleted, missing, filePath, uiVars>>

\* setSessionClean resolves: exportDataIntoFile returns filePath.
CleanResolve ==
  /\ pc = "clean"
  /\ req[CleanCall].status = "pending"
  /\ req' = Settle(req, CleanCall, "resolved")
  /\ sessionDirty' = FALSE
  /\ pc' = "resolved"
  /\ UNCHANGED <<dataset, env, optionsArg, fetched, endpointTypes, endpoints, endpointsArg,
                 clusterIds, keyValues, kvValue, state, document, writeData, file,
                 writeCalls, cleanCalls, pathIn, pathOut>>
  /\ UNCHANGED <<writeResult, settleCalls, reordered, deleted, missing, filePath, uiVars>>

\* setSessionClean rejects: the await of line 142 throws.
CleanReject ==
  /\ pc = "clean"
  /\ req[CleanCall].status = "pending"
  /\ req' = Settle(req, CleanCall, "rejected")
  /\ pc' = "rejected"
  /\ UNCHANGED <<dataset, env, optionsArg, fetched, endpointTypes, endpoints, endpointsArg,
                 clusterIds, keyValues, kvValue, state, document, writeData, file,
                 sessionDirty, writeCalls, cleanCalls, pathIn, pathOut>>
  /\ UNCHANGED <<writeResult, settleCalls, reordered, deleted, missing, filePath, uiVars>>

\* Another writer deletes endpoint type i of the listing from storage while
\* a fetch of its clusters, commands or attributes is in flight.
EndpointTypeDeleted(i) ==
  /\ dataset = "mutated"
  /\ Resolved(EndpointTypesCall)
  /\ i \in DOMAIN fetched[EndpointTypesCall]
  /\ i \notin deleted
  /\ \E c \in Calls : c[2] = i /\ InFlight(c)
  /\ deleted' = deleted \cup {i}
  /\ UNCHANGED <<dataset, env, pc, optionsArg, req, fetched, endpointTypes, endpoints,
                 endpointsArg, clusterIds, keyValues, kvValue, state, document, writeData,
                 file, sessionDirty, writeCalls, cleanCalls, writeResult, settleCalls,
                 reordered, pathIn, pathOut, missing, filePath, uiVars>>

Next ==
  \/ Call
  \/ KeyValuesResolve
  \/ PackagesResolve
  \/ EndpointTypesResolve
  \/ \E i \in TypeIndexes : ClustersResolve(i)
  \/ \E i \in TypeIndexes, j \in ClusterIndexes : CommandsResolve(i, j)
  \/ \E i \in TypeIndexes, j \in ClusterIndexes : AttributesResolve(i, j)
  \/ EndpointsResolve
  \/ LogResolve
  \/ \E call \in Calls : SessionFetchReject(call)
  \/ \E call \in Calls : EndpointTypeFetchReject(call)
  \/ \E err \in BOOLEAN : WriteDone(err)
  \/ CleanResolve
  \/ CleanReject

Spec == Init /\ [][Next]_vars

SpecRows == InitRows /\ [][Next]_vars

NextMutated ==
  \/ Next
  \/ \E i \in TypeIndexes : EndpointTypeDeleted(i)

SpecMutated == InitMutated /\ [][NextMutated]_vars

(***************************************************************************)
(* The package path resolution on its own, over every package path and     *)
(* reference path of at most MaxPathLen segments, and the paths of the     *)
(* documented examples.                                                    *)
(***************************************************************************)
Segments == {"home", "u", ".."}

RECURSIVE SegSeqs(_)
SegSeqs(n) ==
  IF n = 0 THEN {<<>>}
  ELSE SegSeqs(n - 1) \cup {Append(q, x) : q \in SegSeqs(n - 1), x \in Segments}

PathChoices ==
  {[abs |-> a, segs |-> q] : a \in BOOLEAN, q \in SegSeqs(MaxPathLen)}
  \cup {PkgA, PkgDir, ZapX, ZapY}

InitPath ==
  /\ dataset = "paths"
  /\ InitExport
  /\ InitWindow
  /\ pc = "idle"

\* exportSessionPackages maps one package row (lines 96-112).
ResolvePackagePath ==
  /\ dataset = "paths"
  /\ pathOut = NoPathOut
  /\ \E p \in PathChoices, ref \in PathChoices \cup {Null},
        home \in {HomeU, <<>>}, cwd \in {<<"home">>} :
       /\ env' = [homedir |-> home, cwd |-> cwd]
       /\ pathIn' = [package |-> p, reference |-> ref]
       /\ pathOut' = ExportPackage([homedir |-> home, cwd |-> cwd],
                                   [path |-> p, version |-> "1", type |-> "zcl-properties"],
                                   ref)
  /\ UNCHANGED <<dataset, exportVars, uiVars>>

NextPath == ResolvePackagePath

SpecPath == InitPath /\ [][NextPath]_vars

(***************************************************************************)
(* The window title and the save commands (src-electron/ui/ui-util.ts).    *)
(* A title or a path is a string; a save command runs doSave or doSaveAs,  *)
(* whose then callbacks run when the renderer and the dialog answer.       *)
(***************************************************************************)
\* String.prototype.startsWith, slice and includes.
StartsWith(s, t) == Len(s) >= Len(t) /\ SubSeq(s, 1, Len(t)) = t

Slice(s, n) == SubSeq(s, n + 1, Len(s))

Includes(s, t) == \E k \in 0..(Len(s) - Len(t)) : SubSeq(s, k + 1, k + Len(t)) = t

\* Faulty variant: the prefix is added to every title of a dirty window.
ToggledTitleMut(t, dirty) ==
  IF StartsWith(t, "* ") /\ ~dirty THEN Slice(t, 2)
  ELSE IF dirty THEN "* " \o t
  ELSE t

\* The title toggleDirtyFlag leaves (lines 213-217).
ToggledTitle(t, dirty) ==
  IF StartsWith(t, "* ") /\ ~dirty THEN Slice(t, 2)
  ELSE IF ~StartsWith(t, "*") /\ dirty THEN "* " \o t
  ELSE t

\* Faulty variant: the title is compared with newConfiguration.
DoSaveDefersMut(t) == t = newConfiguration

\* browserWindow.getTitle().includes(newConfiguration)
DoSaveDefers(t) == Includes(t, newConfiguration)

\* The strings of at most n characters of a title.
TitleChars == {"*", " ", "a"}

RECURSIVE Strings(_)
Strings(n) ==
  IF n = 0 THEN {""}
  ELSE Strings(n - 1) \cup {str \o c : str \in Strings(n - 1), c \in TitleChars}

\* The titles a window may start with: none begins with '*'.
TitleChoices ==
  {t \in Strings(MaxTitleLen) \cup {newConfiguration, "/home/u/x.zap"} : ~StartsWith(t, "*")}

\* The paths the user may choose in the save dialog.
DialogPaths == {"/home/u/y.zap", "/home/u/New Configuration.zap"}

\* No then callback of a save command is waiting to run: a callback whose
\* promise has resolved runs before any other event is handled.
NoMicrotask == \A k \in SaveFlows : flow[k].pc # "saved"

\* The next save command of the user.
NextFlow(k) == flow[k].pc = "none" /\ \A h \in 1..(k - 1) : flow[h].pc # "none"

\* toggleDirtyFlag(browserWindow, dirty).
ToggleDirtyFlag(dirty) ==
  /\ NoMicrotask
  /\ isDirty' = <<dirty>>
  /\ title' = ToggledTitle(title, dirty)
  /\ UNCHANGED <<dataset, env, pathIn, pathOut, exportVars, titleOrig, storedFileSave, flow,
                 saveRequests>>

\* doSave(browserWindow): doSaveAs up to its first then, or fileSave(browserWindow, null).
DoSave(k) ==
  /\ NoMicrotask
  /\ NextFlow(k)
  /\ IF DoSaveDefers(title)
     THEN /\ flow' = [flow EXCEPT ![k] = [@ EXCEPT !.pc = "getItem", !.via = "doSave",
                                                   !.titleAtCall = title]]
          /\ UNCHANGED saveRequests
     ELSE /\ flow' = [flow EXCEPT ![k] = [@ EXCEPT !.pc = "direct", !.via = "doSave",
                                                   !.titleAtCall = title]]
          /\ saveRequests' = Append(saveRequests, <<>>)
  /\ UNCHANGED <<dataset, env, pathIn, pathOut, exportVars, title, titleOrig, isDirty,
                 storedFileSave>>

\* doSaveAs(browserWindow), from the menu: up to its first then.
DoSaveAs(k) ==
  /\ NoMicrotask
  /\ NextFlow(k)
  /\ flow' = [flow EXCEPT ![k] = [@ EXCEPT !.pc = "getItem", !.via = "doSaveAs",
                                          !.titleAtCall = title]]
  /\ UNCHANGED <<dataset, env, pathIn, pathOut, exportVars, title, titleOrig, isDirty,
                 storedFileSave, saveRequests>>

\* The renderer answers getStorageItem: the save dialog is shown (lines 141-152).
StorageItemResolve(k) ==
  /\ NoMicrotask
  /\ flow[k].pc = "getItem"
  /\ flow' = [flow EXCEPT ![k].pc = "dialog"]
  /\ UNCHANGED <<dataset, env, pathIn, pathOut, exportVars, title, titleOrig, isDirty,
                 storedFileSave, saveRequests>>

\* The save dialog is closed (lines 153-160): canceled, or with a path, for
\* which the save is requested.
DialogClose(k, canceled, path) ==
  /\ NoMicrotask
  /\ flow[k].pc = "dialog"
  /\ IF ~canceled
     THEN /\ saveRequests' = Append(saveRequests, <<path>>)
          /\ flow' = [flow EXCEPT ![k] = [@ EXCEPT !.pc = "saved", !.chosen = path]]
     ELSE /\ flow' = [flow EXCEPT ![k].pc = "canceled"]
          /\ UNCHANGED saveRequests
  /\ UNCHANGED <<dataset, env, pathIn, pathOut, exportVars, title, titleOrig, isDirty,
                 storedFileSave>>

\* The last then of doSaveAs, for a path (lines 161-171).
SetTitleAndStore(k) ==
  /\ flow[k].pc = "saved"
  /\ title' = flow[k].chosen
  /\ storedFileSave' = <<flow[k].chosen>>
  /\ flow' = [flow EXCEPT ![k].pc = "done"]
  /\ UNCHANGED <<dataset, env, pathIn, pathOut, exportVars, titleOrig, isDirty, saveRequests>>

\* getStorageItem or the dialog rejects: the catch of line 172 shows the error.
SaveAsReject(k) ==
  /\ NoMicrotask
  /\ flow[k].pc \in {"getItem", "dialog"}
  /\ flow' = [flow EXCEPT ![k].pc = "failed"]
  /\ UNCHANGED <<dataset, env, pathIn, pathOut, exportVars, title, titleOrig, isDirty,
                 storedFileSave, saveRequests>>

InitTitle ==
  /\ dataset = "titles"
  /\ InitExport
  /\ title \in TitleChoices
  /\ titleOrig = title
  /\ isDirty = <<>>
  /\ storedFileSave = <<>>
  /\ flow = [k \in SaveFlows |-> NoFlow]
  /\ saveRequests = <<>>

NextTitle == \E dirty \in BOOLEAN : ToggleDirtyFlag(dirty)

SpecTitle == InitTitle /\ [][NextTitle]_vars

InitSave ==
  /\ dataset = "saves"
  /\ InitExport
  /\ title \in {newConfiguration, "/home/u/x.zap"}
  /\ titleOrig = title
  /\ isDirty = <<>>
  /\ storedFileSave = (IF title = newConfiguration THEN <<>> ELSE <<title>>)
  /\ flow = [k \in SaveFlows |-> NoFlow]
  /\ saveRequests = <<>>

NextSave ==
  \/ \E dirty \in BOOLEAN : ToggleDirtyFlag(dirty)
  \/ \E k \in SaveFlows : DoSave(k)
  \/ \E k \in SaveFlows : DoSaveAs(k)
  \/ \E k \in SaveFlows : StorageItemResolve(k)
  \/ \E k \in SaveFlows, canceled \in BOOLEAN, path \in DialogPaths : DialogClose(k, canceled, path)
  \/ \E k \in SaveFlows : SetTitleAndStore(k)
  \/ \E k \in SaveFlows : SaveAsReject(k)

SpecSave == InitSave /\ [][NextSave]_vars

(***************************************************************************)
(* Properties.                                                             *)
(***************************************************************************)
\* createStateFromDatabase has returned its document.
Returned == "creator" \in DOMAIN document

\* C1: setSessionClean is called exactly when the callback of fs.writeFile
\* reported success: not before the callback ran and never after an error,
\* in which case exportDataIntoFile rejects; once after a success, when the
\* file is written.  fs.writeFile is called at most once.
C1_CleanOnlyAfterWriteSuccess ==
  /\ writeCalls <= 1
  /\ cleanCalls = (IF writeResult = "success" THEN 1 ELSE 0)
  /\ writeResult = "error" => pc = "rejected" /\ sessionDirty
  /\ cleanCalls > 0 => file.exists

C1_WriteFailed ==
  /\ writeResult = "error"
  /\ pc = "rejected"
  /\ cleanCalls = 0

\* C2: once a fetch of the assembly has rejected, fs.writeFile and
\* setSessionClean are never called, no file is written, the session stays
\* dirty, and exportDataIntoFile has rejected or is still waiting at line
\* 190 for a fetch of exportEndpointTypes that is in flight, after which it
\* rejects at line 210.
C2_SubFetchFailureFailsExport ==
  (\E c \in SubFetches : Rejected(c)) =>
    /\ writeCalls = 0
    /\ cleanCalls = 0
    /\ file = NoFile
    /\ sessionDirty
    /\ \/ pc = "rejected"
       \/ /\ pc = "createState"
          /\ \E c \in SubFetches \ {KeyValuesCall, PackagesCall, LogCall} : InFlight(c)

\* The commands fetch of one cluster rejected, those of another cluster
\* resolved after it was issued, and nothing is in flight any more.
C2_OneCommandsFetchRejected ==
  /\ Rejected(CommandsCall(1, 1))
  /\ Resolved(AttributesCall(1, 2))
  /\ Resolved(AttributesCall(2, 1))
  /\ \A c \in Calls : ~InFlight(c)
  /\ pc = "rejected"

\* C3: an export that has ended has either written the document, marked the
\* session clean and resolved, or written nothing, left the session
\* unmarked and rejected.
C3_AllOrNothing ==
  pc \in {"resolved", "rejected"} =>
    \/ pc = "resolved" /\ file.exists /\ ~sessionDirty
    \/ pc = "rejected" /\ ~file.exists /\ sessionDirty /\ cleanCalls = 0

\* The join identifiers of storage are absent from a document.
NoJoinIdentifiers(doc) ==
  /\ \A i \in DOMAIN doc.endpointTypes :
       /\ ~Has(doc.endpointTypes[i], "endpointTypeId")
       /\ \A j \in DOMAIN doc.endpointTypes[i].clusters :
            ~Has(doc.endpointTypes[i].clusters[j], "endpointClusterId")
  /\ \A k \in DOMAIN doc.endpoints : ~Has(doc.endpoints[k], "endpointTypeRef")

\* C4: the document createStateFromDatabase returns, and the one written,
\* hold no endpointTypeId, no endpointClusterId and no endpointTypeRef.
C4_NoJoinIdentifiers ==
  /\ Returned => NoJoinIdentifiers(document)
  /\ file.exists => NoJoinIdentifiers(file.content)

\* A document of two endpoint types, three clusters and two endpoints was
\* returned after fetches that resolved out of their request order, from
\* rows that all carried their join identifiers.
C4_DocumentFromIdentifiedRows ==
  /\ Returned
  /\ reordered
  /\ Len(document.endpointTypes) = 2
  /\ Len(document.endpointTypes[1].clusters) + Len(document.endpointTypes[2].clusters) = 3
  /\ Len(document.endpoints) = 2
  /\ \A i \in DOMAIN fetched[EndpointTypesCall] :
       /\ Has(fetched[EndpointTypesCall][i], "endpointTypeId")
       /\ \A j \in DOMAIN fetched[ClustersCall(i)] :
            Has(fetched[ClustersCall(i)][j], "endpointClusterId")
  /\ \A k \in DOMAIN fetched[EndpointsCall] : Has(fetched[EndpointsCall][k], "endpointTypeRef")

\* C5: the returned document has one endpoint type per row of the listing
\* and, in each, one cluster per row of its cluster fetch; every cluster has
\* a commands and an attributes field, which hold the rows the commands and
\* the attributes fetch of that cluster returned (possibly none).
C5_Complete ==
  Returned =>
    /\ Len(document.endpointTypes) = Len(fetched[EndpointTypesCall])
    /\ \A i \in DOMAIN document.endpointTypes :
         /\ Has(document.endpointTypes[i], "clusters")
         /\ Len(document.endpointTypes[i].clusters) = Len(fetched[ClustersCall(i)])
         /\ \A j \in DOMAIN document.endpointTypes[i].clusters :
              LET cluster == document.endpointTypes[i].clusters[j]
              IN /\ Has(cluster, "commands")
                 /\ Has(cluster, "attributes")
                 /\ cluster.commands = fetched[CommandsCall(i, j)]
                 /\ cluster.attributes = fetched[AttributesCall(i, j)]

\* A returned document in which one cluster has commands and attributes and
\* another cluster of the same endpoint type has neither.
C5_EmptyAndNonEmptyClusters ==
  /\ Returned
  /\ \E i \in DOMAIN document.endpointTypes :
       /\ Len(document.endpointTypes[i].clusters) >= 2
       /\ document.endpointTypes[i].clusters[1].commands # <<>>
       /\ document.endpointTypes[i].clusters[1].attributes # <<>>
       /\ document.endpointTypes[i].clusters[2].commands = <<>>
       /\ document.endpointTypes[i].clusters[2].attributes = <<>>

\* The exported cluster that storage determines for a cluster row of the
\* endpoint type with the given id.
ExpectedCluster(endpointTypeId, row) ==
  [name |-> row.name,
   commands |-> CommandRows(endpointTypeId, row.endpointClusterId),
   attributes |-> AttributeRows(endpointTypeId, row.endpointClusterId)]

\* The exported endpoint type that storage determines for row i of the
\* listing, given the number of its clusters.
ExpectedEndpointType(listing, i, m) ==
  [name |-> listing[i].name,
   clusters |-> [j \in 1..m |->
                   ExpectedCluster(listing[i].endpointTypeId,
                                   ClusterRows(listing[i].endpointTypeId, m)[j])]]

\* C6: whatever the order in which the fetches resolve, the endpoint types
\* array holds at every moment the rows of the listing in the listing's
\* order, each with its own clusters in the order of its cluster fetch and
\* each cluster with the commands and attributes of that cluster; so the
\* returned endpointTypes is the one value the stored rows determine.
C6_OrderIndependentOfCompletion ==
  LET listing == fetched[EndpointTypesCall]
  IN /\ Len(endpointTypes) = Len(listing)
     /\ \A i \in DOMAIN endpointTypes :
          /\ endpointTypes[i].name = listing[i].name
          /\ Has(endpointTypes[i], "clusters") =>
               LET rows == ClusterRows(listing[i].endpointTypeId, Len(endpointTypes[i].clusters))
               IN \A j \in DOMAIN rows :
                    LET cluster == endpointTypes[i].clusters[j]
                        expected == ExpectedCluster(listing[i].endpointTypeId, rows[j])
                    IN /\ cluster.name = expected.name
                       /\ Has(cluster, "commands") => cluster.commands = expected.commands
                       /\ Has(cluster, "attributes") => cluster.attributes = expected.attributes
     /\ Returned =>
          document.endpointTypes =
            [i \in DOMAIN listing |->
               ExpectedEndpointType(listing, i, Len(fetched[ClustersCall(i)]))]

\* A document of two endpoint types, one of them with two clusters, was
\* returned after fetches that resolved out of their request order.
C6_ReturnedAfterReordering ==
  /\ Returned
  /\ reordered
  /\ Len(document.endpointTypes) = 2
  /\ \E i \in DOMAIN document.endpointTypes : Len(document.endpointTypes[i].clusters) >= 2
  /\ \E i \in DOMAIN document.endpointTypes : Len(document.endpointTypes[i].clusters) = 1

\* C7: the written document has no log field when options.removeLog is
\* true, and has the log that readLog returned when options.removeLog is
\* false or the options argument is omitted.
C7_LogSuppression ==
  file.exists =>
    IF optionsArg # <<>> /\ optionsArg[1].removeLog
    THEN ~Has(file.content, "log")
    ELSE Has(file.content, "log") /\ file.content.log = fetched[LogCall]

\* A document with a log of one entry was written with the options omitted.
C7_WrittenWithDefaultOptions ==
  /\ file.exists
  /\ optionsArg = <<>>
  /\ Len(fetched[LogCall]) = 1
  /\ Has(file.content, "log")

\* The positions of the key/value rows whose key is not the file path key.
OtherKeyPositions(rows) == {p \in DOMAIN rows : rows[p].key # FilePathKey}

\* C8: keyValuePairs of the returned document holds no pair with the file
\* path key, and holds every other row of the key/value fetch, unchanged and
\* in the order of the fetch.
C8_FilePathKeyExcluded ==
  Returned =>
    LET rows == fetched[KeyValuesCall]
        pairs == document.keyValuePairs
    IN /\ \A k \in DOMAIN pairs : pairs[k].key # FilePathKey
       /\ Len(pairs) = Cardinality(OtherKeyPositions(rows))
       /\ \A p \in OtherKeyPositions(rows) :
            pairs[Cardinality({q \in OtherKeyPositions(rows) : q <= p})] = rows[p]

\* A document was returned for three stored pairs, the file path between
\* two others.
C8_FilePathBetweenOthers ==
  /\ Returned
  /\ Len(fetched[KeyValuesCall]) = 3
  /\ fetched[KeyValuesCall][2].key = FilePathKey
  /\ Len(document.keyValuePairs) = 2

\* rel leads from the directory base to target: base followed by rel
\* normalizes to target, and rel goes up from base exactly to the deepest
\* directory base and target share, then down without going up again.
LeadsFrom(base, rel, target) ==
  LET ups == Len(base) - CommonPrefixLen(base, target)
  IN /\ NormalizeSegs(<<>>, base \o rel) = target
     /\ Len(rel) = ups + (Len(target) - CommonPrefixLen(base, target))
     /\ \A k \in DOMAIN rel : (rel[k] = "..") <=> (k <= ups)

\* C9: a package path resolves to {relativeToZap, rel} when a reference
\* path is given and rel, the package path relative to the directory of the
\* reference, is not empty; otherwise to {relativeToUserHome, the package
\* path relative to the home directory}.  With home /home/u, the package
\* /home/u/pkgs/a.xml resolves to home-relative pkgs/a.xml without a
\* reference and to document-relative ../pkgs/a.xml with the reference
\* /home/u/projects/x.zap.  No empty document-relative path is produced.
C9_PackagePathResolution ==
  pathOut # NoPathOut =>
    LET target == PathResolve(env.cwd, pathIn.package)
        home == PathResolve(env.cwd, Abs(env.homedir))
        given == ~IsNull(pathIn.reference)
        base == IF given THEN PathResolve(env.cwd, PathDirname(pathIn.reference)) ELSE <<>>
    IN /\ IF given /\ base # target
          THEN /\ pathOut.pathRelativity = relativeToZap
               /\ pathOut.path # <<>>
               /\ LeadsFrom(base, pathOut.path, target)
          ELSE /\ pathOut.pathRelativity = relativeToUserHome
               /\ LeadsFrom(home, pathOut.path, target)
       /\ (pathIn.package = PkgA /\ ~given /\ env.homedir = HomeU) =>
            /\ pathOut.pathRelativity = relativeToUserHome
            /\ PathString(pathOut.path) = "pkgs/a.xml"
       /\ (pathIn.package = PkgA /\ given /\ pathIn.reference = ZapX) =>
            /\ pathOut.pathRelativity = relativeToZap
            /\ PathString(pathOut.path) = "../pkgs/a.xml"

\* The package path is the directory of the reference document, so the
\* document-relative path is empty and the home-relative one is produced.
C9_EmptyRelativeFallsBack ==
  /\ pathIn.package = PkgDir
  /\ pathIn.reference = ZapY
  /\ env.homedir = HomeU
  /\ pathOut.pathRelativity = relativeToUserHome
  /\ PathString(pathOut.path) = "pkgs"

DocumentFields ==
  {"featureLevel", "creator", "keyValuePairs", "package", "endpointTypes", "endpoints", "log"}

\* C10: the returned document has the fields featureLevel, creator,
\* keyValuePairs, package, endpointTypes, endpoints and log; each of the
\* last five is a sequence with one element per row its fetch returned
\* (per row that is not the file path for keyValuePairs), the empty
\* sequence when there is none.
C10_AllFieldsPresent ==
  Returned =>
    /\ DocumentFields \subseteq DOMAIN document
    /\ Len(document.keyValuePairs) = Cardinality(OtherKeyPositions(fetched[KeyValuesCall]))
    /\ Len(document.package) = Len(fetched[PackagesCall])
    /\ Len(document.endpointTypes) = Len(fetched[EndpointTypesCall])
    /\ Len(document.endpoints) = Len(fetched[EndpointsCall])
    /\ Len(document.log) = Len(fetched[LogCall])

\* A document was returned for a session without key/value pairs, packages,
\* endpoint types, endpoints and log entries.
C10_EveryBranchEmpty ==
  /\ Returned
  /\ fetched[KeyValuesCall] = <<>>
  /\ fetched[PackagesCall] = <<>>
  /\ fetched[EndpointTypesCall] = <<>>
  /\ fetched[EndpointsCall] = <<>>
  /\ fetched[LogCall] = <<>>
  /\ document.package = <<>>

\* C11: when a fetch of the clusters, commands or attributes of a listed
\* endpoint type was served after that endpoint type was deleted from
\* storage, createStateFromDatabase does not return a document.
C11_MissingParentFails == missing # {} => ~Returned

IssuedCall(call) == req[call].status # "none"

\* C12: the fetches of the fan-out are issued without waiting on one
\* another: once the listing has resolved the cluster fetch of every
\* endpoint type is issued, once a cluster fetch has resolved the commands
\* fetch of every cluster of it is issued, and whenever the commands fetch
\* of a cluster is issued so is the attributes fetch of that cluster.
C12_FanOutIssuedWithoutWaiting ==
  /\ Resolved(EndpointTypesCall) =>
       \A i \in DOMAIN fetched[EndpointTypesCall] : IssuedCall(ClustersCall(i))
  /\ \A i \in TypeIndexes :
       Resolved(ClustersCall(i)) =>
         \A j \in DOMAIN fetched[ClustersCall(i)] : IssuedCall(CommandsCall(i, j))
  /\ \A i \in TypeIndexes, j \in ClusterIndexes :
       IssuedCall(CommandsCall(i, j)) => IssuedCall(AttributesCall(i, j))

\* C13: from the call on, the key/value fetch and the log fetch are issued,
\* and the package fetch is issued as soon as the key/value fetch has
\* resolved: none of them waits for a fetch of exportEndpointTypes.
C13_SessionFetchesIssuedAtOnce ==
  pc # "idle" =>
    /\ IssuedCall(KeyValuesCall)
    /\ Resolved(KeyValuesCall) => IssuedCall(PackagesCall)
    /\ IssuedCall(LogCall)

\* C14: in an export called with options.removeLog, readLog is never
\* issued, so that no rejection of readLog makes the export reject.
C14_SuppressedLogNotFetched ==
  Options(optionsArg).removeLog =>
    /\ ~IssuedCall(LogCall)
    /\ ~(Rejected(LogCall) /\ pc = "rejected")

\* The fetches that an export of the fetched listing and cluster rows makes.
FetchesOf(f) ==
  {KeyValuesCall, PackagesCall, EndpointTypesCall, EndpointsCall, LogCall}
  \cup {ClustersCall(i) : i \in DOMAIN f[EndpointTypesCall]}
  \cup UNION {{CommandsCall(i, j), AttributesCall(i, j)} :
               <<i, j>> \in {ij \in TypeIndexes \X ClusterIndexes :
                               /\ ij[1] \in DOMAIN f[EndpointTypesCall]
                               /\ ij[2] \in DOMAIN f[ClustersCall(ij[1])]}}

BranchFields == {"keyValuePairs", "package", "endpointTypes", "endpoints", "log"}

\* C15: until createStateFromDatabase returns, its state record holds none
\* of keyValuePairs, package, endpointTypes, endpoints and log; when it has
\* returned, and whenever fs.writeFile has been called, every fetch of the
\* export (key/values, packages, the listing, every cluster fetch, every
\* commands and attributes fetch, endpoints, log) has resolved and no fetch
\* is in flight.
C15_NoPartialDocument ==
  /\ ~Returned => /\ pc # "idle" => DOMAIN state = {"featureLevel", "creator"}
                  /\ writeCalls = 0
  /\ Returned => /\ BranchFields \subseteq DOMAIN document
                 /\ \A c \in FetchesOf(fetched) : Resolved(c)
                 /\ \A c \in SubFetches : ~InFlight(c)

\* A document of two endpoint types, each with clusters, is returned and
\* fs.writeFile is called with it.
C15_ReturnedWithClusters ==
  /\ Returned
  /\ pc = "write"
  /\ writeCalls = 1
  /\ Len(fetched[EndpointTypesCall]) = 2
  /\ \A i \in 1..2 : Len(fetched[ClustersCall(i)]) >= 1

\* C16: when exportEndpoints is called, the cluster fetch of every listed
\* endpoint type and the commands and attributes fetch of every cluster
\* have resolved, and its argument holds every listed endpoint type with
\* its endpointTypeId, its clusters and each cluster's commands and
\* attributes; until exportEndpoints has resolved every endpoint type keeps
\* its endpointTypeId, and the endpoints it returns carry those ids as
\* endpointTypeRef, which only the exported endpoints lack.
C16_EndpointsAfterPopulation ==
  LET listing == fetched[EndpointTypesCall]
  IN /\ IssuedCall(EndpointsCall) =>
          /\ \A c \in FetchesOf(fetched) \ {KeyValuesCall, PackagesCall, LogCall, EndpointsCall} :
               Resolved(c)
          /\ Len(endpointsArg) = Len(listing)
          /\ \A i \in DOMAIN endpointsArg :
               /\ Get(endpointsArg[i], "endpointTypeId") = listing[i].endpointTypeId
               /\ Has(endpointsArg[i], "clusters")
               /\ Len(endpointsArg[i].clusters) = Len(fetched[ClustersCall(i)])
               /\ \A j \in DOMAIN endpointsArg[i].clusters :
                    /\ Has(endpointsArg[i].clusters[j], "commands")
                    /\ Has(endpointsArg[i].clusters[j], "attributes")
     /\ ~Resolved(EndpointsCall) =>
          /\ \A i \in DOMAIN endpointTypes :
               Get(endpointTypes[i], "endpointTypeId") = listing[i].endpointTypeId
          /\ endpoints = <<>>
     /\ Resolved(EndpointsCall) =>
          /\ \A k \in DOMAIN fetched[EndpointsCall] :
               \E i \in DOMAIN listing :
                 fetched[EndpointsCall][k].endpointTypeRef = listing[i].endpointTypeId
          /\ Len(endpoints) = Len(fetched[EndpointsCall])
          /\ \A k \in DOMAIN endpoints : ~Has(endpoints[k], "endpointTypeRef")
          /\ \A i \in DOMAIN endpointTypes : ~Has(endpointTypes[i], "endpointTypeId")

\* exportEndpoints is in flight for two endpoint types with clusters, whose
\* fetches resolved out of their request order.
C16_EndpointsInFlight ==
  /\ InFlight(EndpointsCall)
  /\ reordered
  /\ Len(endpointsArg) = 2
  /\ \A i \in 1..2 : Len(endpointsArg[i].clusters) >= 1

\* C17: every commands fetch and every attributes fetch that has been issued
\* was issued with the endpointTypeId of its endpoint type's row of the
\* listing and the endpointClusterId of its cluster's row of the cluster
\* fetch, neither of them undefined, although the cluster record has lost
\* its endpointClusterId by then; and while such a fetch is in flight its
\* endpoint type still has its endpointTypeId.
C17_FetchesIssuedWithOriginalIds ==
  \A i \in TypeIndexes, j \in ClusterIndexes :
    \A c \in {CommandsCall(i, j), AttributesCall(i, j)} :
      IssuedCall(c) =>
        /\ req[c].endpointTypeId # Undefined
        /\ req[c].endpointClusterId # Undefined
        /\ req[c].endpointTypeId = fetched[EndpointTypesCall][i].endpointTypeId
        /\ req[c].endpointClusterId = fetched[ClustersCall(i)][j].endpointClusterId
        /\ ~Has(endpointTypes[i].clusters[j], "endpointClusterId")
        /\ InFlight(c) => Has(endpointTypes[i], "endpointTypeId")

\* The attributes fetch of the first cluster of the second endpoint type is
\* in flight when the endpoint fetches of the first endpoint type are over.
C17_AttributesInFlight ==
  /\ InFlight(AttributesCall(2, 1))
  /\ Resolved(CommandsCall(2, 1))
  /\ Resolved(AttributesCall(1, 1))
  /\ ~Has(endpointTypes[2].clusters[1], "endpointClusterId")

\* The positions of the key/value rows whose key is the file path key.
FilePathPositions(rows) == {p \in DOMAIN rows : rows[p].key = FilePathKey}

\* C18: the package fetch is issued only when the key/value fetch has
\* resolved; every package of the returned document is resolved against the
\* value of the first stored file path row (document-relative when that
\* relative path is not empty), whatever the filePath argument is; and
\* without a stored file path row every package is relativeToUserHome.
C18_ReferenceIsStoredFilePath ==
  /\ IssuedCall(PackagesCall) => Resolved(KeyValuesCall)
  /\ Returned =>
       LET rows == fetched[KeyValuesCall]
           stored == FilePathPositions(rows)
       IN \A k \in DOMAIN fetched[PackagesCall] :
            LET package == fetched[PackagesCall][k].path
                out == document.package[k]
                homeRel == PathRelative(env.cwd, Abs(env.homedir), package)
            IN IF stored = {}
               THEN out.pathRelativity = relativeToUserHome /\ out.path = homeRel
               ELSE LET first == CHOOSE p \in stored : \A q \in stored : p <= q
                        rel == PathRelative(env.cwd, PathDirname(rows[first].value), package)
                    IN IF rel # <<>>
                       THEN out.pathRelativity = relativeToZap /\ out.path = rel
                       ELSE out.pathRelativity = relativeToUserHome /\ out.path = homeRel

\* A document is returned for a session without a stored file path, with a
\* package that is relativeToUserHome although it would be document-relative
\* to the filePath argument.
C18_NoStoredFilePath ==
  /\ Returned
  /\ FilePathPositions(fetched[KeyValuesCall]) = {}
  /\ Len(document.package) = 1
  /\ document.package[1].pathRelativity = relativeToUserHome
  /\ ExportPackage(env, fetched[PackagesCall][1], filePath).pathRelativity = relativeToZap

\* The title without the dirty prefix.
Unprefixed(t) == IF StartsWith(t, "* ") THEN Slice(t, 2) ELSE t

\* C19: for a window whose first title does not begin with '*', after any
\* calls of toggleDirtyFlag the title begins with '* ' exactly when isDirty
\* is true, the title without that prefix is the first title, and the
\* prefix is not doubled; the title being determined by the first title and
\* isDirty, a call that repeats the dirty value leaves it as it is.
C19_TitleTracksDirtyFlag ==
  /\ StartsWith(title, "* ") <=> isDirty = <<TRUE>>
  /\ Unprefixed(title) = titleOrig
  /\ title \in {titleOrig, "* " \o titleOrig}
  /\ ~StartsWith(Unprefixed(title), "*")

\* A window whose first title holds "* " after its first character is dirty.
C19_DirtyWithStarInTitle ==
  /\ isDirty = <<TRUE>>
  /\ Includes(titleOrig, "* ")
  /\ title = "* " \o titleOrig

\* What a step may do to the save requests, the title and the stored path.
SaveStep ==
  /\ \A k \in SaveFlows :
       /\ (flow[k].pc = "none" /\ flow'[k].pc = "direct") =>
            /\ saveRequests' = Append(saveRequests, <<>>)
            /\ UNCHANGED <<title, storedFileSave>>
       /\ (flow[k].pc = "none" /\ flow'[k].pc = "getItem") =>
            UNCHANGED <<saveRequests, title, storedFileSave>>
       /\ (flow[k].pc = "dialog" /\ flow'[k].pc = "canceled") =>
            UNCHANGED <<saveRequests, title, storedFileSave>>
       /\ (flow[k].pc = "dialog" /\ flow'[k].pc = "saved") =>
            /\ saveRequests' = Append(saveRequests, <<flow'[k].chosen>>)
            /\ UNCHANGED <<title, storedFileSave>>
       /\ (flow[k].pc = "saved" /\ flow'[k].pc = "done") =>
            /\ title' = flow[k].chosen
            /\ storedFileSave' = <<flow[k].chosen>>
            /\ UNCHANGED saveRequests
       /\ flow[k].pc = "canceled" => flow'[k].pc = "canceled"
  /\ storedFileSave' # storedFileSave => \E h \in SaveFlows : flow[h].pc = "saved"
  /\ saveRequests' # saveRequests =>
       \E h \in SaveFlows : flow[h].pc \in {"none", "dialog"} /\ flow'[h].pc \in {"direct", "saved"}

\* C20: a doSave call requests a save with a null path, without touching
\* the title or the stored path, exactly when the title at the call does not
\* contain 'New Configuration', and otherwise runs doSaveAs and requests
\* nothing itself; closing the dialog canceled requests no save and leaves
\* the title and the stored path; closing it with a path requests the save
\* with that path and leaves the title and the stored path, which the
\* following step sets to that path; and nothing else changes the stored
\* path or requests a save.
C20_SaveRouting ==
  /\ [](\A k \in SaveFlows :
          flow[k].via = "doSave" =>
            (flow[k].pc = "direct" <=> ~Includes(flow[k].titleAtCall, newConfiguration)))
  /\ [][SaveStep]_vars

\* doSave with the title '* New Configuration' led to the save dialog,
\* where a path was chosen, requested as a save and set as the title.
C20_SavedAsFromDirtyNewConfiguration ==
  \E k \in SaveFlows :
    /\ flow[k].via = "doSave"
    /\ flow[k].titleAtCall = "* " \o newConfiguration
    /\ flow[k].pc = "done"
    /\ title = flow[k].chosen
    /\ saveRequests # <<>>

\* The write promise keeps the state it settled in.
WriteSettledForGood ==
  req[WriteCall].status \in {"resolved", "rejected"} =>
    req'[WriteCall].status = req[WriteCall].status

\* C21: fs.writeFile is called at most once in an export; the write promise
\* settles as the first call the callback makes on it says and keeps that
\* state; when the callback received an error, reject and then resolve were
\* called, the promise is rejected, setSessionClean is not called and the
\* export rejects; the promise is resolved only when the callback received
\* no error.
C21_WriteSettlesOnce ==
  /\ [](/\ writeCalls <= 1
        /\ settleCalls # <<>> => req[WriteCall].status = settleCalls[1]
        /\ settleCalls = <<>> => req[WriteCall].status \in {"none", "pending"}
        /\ writeResult = "error" =>
             /\ settleCalls = <<"rejected", "resolved">>
             /\ Rejected(WriteCall)
             /\ pc = "rejected"
             /\ cleanCalls = 0
        /\ Resolved(WriteCall) => writeResult = "success" /\ settleCalls = <<"resolved">>)
  /\ [][WriteSettledForGood]_vars

\* The callback of fs.writeFile received an error and called reject and
\* then resolve.
C21_ResolveAfterReject ==
  /\ writeResult = "error"
  /\ Len(settleCalls) = 2
  /\ settleCalls[2] = "resolved"
  /\ Rejected(WriteCall)
  /\ writeCalls = 1

====
